---------------------------- MODULE Spec2Model ----------------------------
(***************************************************************************)
(* Model of src/main.c: a single-threaded TCP listener.  main() creates a  *)
(* dual-stack listening socket (socket, two setsockopt calls, bind,        *)
(* listen), prints "Server listening on port N" and then loops forever:    *)
(* accept, write "hello\n", close.                                         *)
(*                                                                         *)
(* The program is one thread, so the state machine is the program counter  *)
(* plus main()'s locals, the kernel's view of the descriptors the program  *)
(* owns, and the two output streams.  Every system call is one action; its *)
(* result is chosen by the environment among the results the call can      *)
(* return.  Signals are outside the model.                                 *)
(***************************************************************************)
EXTENDS Integers, Sequences, FiniteSets

VARIABLES
    pc,            \* position of main()
    argv,          \* command-line arguments after argv[0]
    port,          \* int port                               (line 14)
    server_fd,     \* int server_fd                          (line 10)
    client_fd,     \* int client_fd                          (line 10)
    address,       \* struct sockaddr_in6 address            (line 11)
    listener,      \* kernel state of the socket made at line 19
    open_clients,  \* descriptors returned by accept and not yet closed
    conn,          \* the connection of the current/last successful accept
    prev,          \* the connection served before conn, and main()'s state
                   \* when it had been served
    out,           \* stdout: the printf messages, in order
    err,           \* stderr: the perror labels, in order
    calls,         \* bootstrap system calls issued so far, with results
    naccepts,      \* number of accept calls issued
    exit_status    \* NoExit while running, else the status of exit()

vars == <<pc, argv, port, server_fd, client_fd, address, listener,
          open_clients, conn, prev, out, err, calls, naccepts, exit_status>>

-----------------------------------------------------------------------------
(* Bounds of the model *)

\* accept is called at most this many times
MaxAccepts == 3

-----------------------------------------------------------------------------
(* Program constants *)

DefaultPort == 1848
Backlog == 3
WriteCount == 6
EXIT_FAILURE == 1
NoExit == -1

\* "Hello\n": a typo in the literal
Greeting_Typo == <<72, 101, 108, 108, 111, 10>>

\* "hello\n"
Greeting == <<104, 101, 108, 108, 111, 10>>

\* while (0)
LoopCond_Once == FALSE

\* while (1)
LoopCond == TRUE

-----------------------------------------------------------------------------
(* Pure helpers *)

Max(a, b) == IF a >= b THEN a ELSE b

Take(s, n) == SubSeq(s, 1, n)

DigitChars == {"0", "1", "2", "3", "4", "5", "6", "7", "8", "9"}

DigitVal(c) ==
    CASE c = "0" -> 0 [] c = "1" -> 1 [] c = "2" -> 2 [] c = "3" -> 3
      [] c = "4" -> 4 [] c = "5" -> 5 [] c = "6" -> 6 [] c = "7" -> 7
      [] c = "8" -> 8 [] c = "9" -> 9

SpaceChars == {" ", "\t", "\n"}

RECURSIVE SkipSpaces(_, _)
SkipSpaces(s, i) ==
    IF i <= Len(s) /\ s[i] \in SpaceChars THEN SkipSpaces(s, i + 1) ELSE i

RECURSIVE ParseDigits(_, _, _)
ParseDigits(s, i, acc) ==
    IF i <= Len(s) /\ s[i] \in DigitChars
    THEN ParseDigits(s, i + 1, acc * 10 + DigitVal(s[i]))
    ELSE acc

\* atoi(3): leading white space, an optional sign, then digits up to the
\* first character that is no digit; 0 when there is no digit.  The
\* arguments of the model stay far below INT_MAX.
atoi(s) ==
    LET i == SkipSpaces(s, 1)
        neg == i <= Len(s) /\ s[i] = "-"
        j == IF i <= Len(s) /\ s[i] \in {"-", "+"} THEN i + 1 ELSE i
        v == ParseDigits(s, j, 0)
    IN IF neg THEN 0 - v ELSE v

\* htons(3) on a little-endian host: the argument is cut to 16 bits and
\* its two bytes are swapped.
htons(x) ==
    LET u == x % 65536
    IN (u % 256) * 256 + (u \div 256)

\* ntohs(3): the kernel reads sin6_port back in host order.
ntohs(x) ==
    LET u == x % 65536
    IN (u % 256) * 256 + (u \div 256)

-----------------------------------------------------------------------------
(* The environment *)

\* argv[1] as typed, one character per element
PortArgs ==
    { <<"8", "0">>,
      <<"6", "5", "5", "3", "6">>,
      <<"7", "0", "0", "0", "0">>,
      <<" ", "-", "1", "x">> }

\* the command lines: no argument, or one port argument
ArgVectors == {<<>>} \cup {<<a>> : a \in PortArgs}

\* what an uninitialised int may hold
UninitInts == {-1, 0}

\* socket(2): -1 on failure, else the lowest free descriptor, which is 0
\* when the process was started with standard input closed
SocketResults == {-1, 0, 3}

\* ports the kernel picks from when asked to bind port 0
EphemeralPorts == {32768, 60999}

\* write(2) of WriteCount bytes: -1, or the number of bytes transferred
WriteResults == {-1} \cup (1..WriteCount)

\* close(2): 0 or -1; the descriptor is released either way
CloseResults == {0, -1}

Families == {"AF_INET", "AF_INET6"}

PeerAddrs(f) ==
    IF f = "AF_INET" THEN {"127.0.0.1", "192.0.2.7"}
    ELSE {"::1"}

\* what a client has sent by the time it is served
ClientData == {<<>>, <<71>>}

Clients ==
    {[family |-> f, peer |-> a, data |-> d] :
        f \in Families, a \in PeerAddrs("AF_INET") \cup PeerAddrs("AF_INET6"),
        d \in ClientData}

ValidClients == {c \in Clients : c.peer \in PeerAddrs(c.family)}

\* the source port of a peer, in host order
PeerPort(a) ==
    CASE a = "127.0.0.1" -> 40001 [] a = "192.0.2.7" -> 40002
      [] a = "::1" -> 50001

\* the peer address accept stores: IPv4 peers appear as mapped addresses
MappedAddr(c) ==
    IF c.family = "AF_INET" THEN <<"::ffff:", c.peer>> ELSE <<c.peer>>

NoConn ==
    [id |-> 0, fd |-> -1, family |-> "none", peer |-> "none", data |-> <<>>,
     rcvbuf |-> <<>>, req |-> <<>>, wres |-> 0, cres |-> 0, sent |-> <<>>,
     ops |-> <<>>, state |-> "none", nfail |-> 0,
     after |-> [client_fd |-> -1, open_clients |-> {}, address |-> <<>>]]

\* the lowest descriptor the process does not hold (0, 1, 2 are the
\* standard streams)
LowestFree(held) == CHOOSE n \in 0..(Cardinality(held) + 3) :
    /\ n \notin held
    /\ \A m \in 0..(n - 1) : m \in held

\* what is kept of a served connection when the next one is accepted
NoPrev ==
    [id |-> 0, family |-> "none", peer |-> "none", data |-> <<>>, wres |-> 0,
     req |-> <<>>, sent |-> <<>>, ops |-> <<>>, rcvbuf |-> <<>>,
     client_fd |-> -1, open_clients |-> {}, address |-> <<>>]

HeldFds == {0, 1, 2} \cup (IF server_fd >= 0 THEN {server_fd} ELSE {}) \cup open_clients

-----------------------------------------------------------------------------
Init ==
    /\ pc = "args"
    /\ argv \in ArgVectors
    /\ port = DefaultPort
    /\ server_fd \in UninitInts
    /\ client_fd \in UninitInts
    /\ address = [family |-> "uninit", addr |-> <<"uninit">>, port |-> 0]
    /\ listener = [state |-> "none", reuseaddr |-> FALSE, v6only |-> FALSE,
                   port |-> 0, backlog |-> 0]
    /\ open_clients = {}
    /\ conn = NoConn
    /\ prev = NoPrev
    /\ out = <<>>
    /\ err = <<>>
    /\ calls = <<>>
    /\ naccepts = 0
    /\ exit_status = NoExit

\* perror(label); exit(EXIT_FAILURE);
Die(label) ==
    /\ err' = Append(err, label)
    /\ exit_status' = EXIT_FAILURE
    /\ pc' = "exited"

\* lines 16-17
ParseArgs ==
    /\ pc = "args"
    /\ port' = IF Len(argv) + 1 > 1 THEN atoi(argv[1]) ELSE port
    /\ pc' = "socket"
    /\ UNCHANGED <<argv, server_fd, client_fd, address, listener, open_clients,
                   conn, prev, out, err, calls, naccepts, exit_status>>

\* the test of line 19 on socket()'s result
SocketFailedTest(fd) == fd = 0

\* lines 19-23
Socket ==
    /\ pc = "socket"
    /\ \E r \in SocketResults, v6 \in BOOLEAN :
        /\ server_fd' = r
        /\ calls' = Append(calls, [call |-> "socket", ret |-> r])
        /\ listener' = IF r >= 0
                       THEN [listener EXCEPT !.state = "open", !.v6only = v6]
                       ELSE listener
        /\ IF SocketFailedTest(r)
           THEN Die("socket failed")
           ELSE /\ pc' = "setsockopt_reuse"
                /\ UNCHANGED <<err, exit_status>>
    /\ UNCHANGED <<argv, port, client_fd, address, open_clients, conn, prev,
                   out, naccepts>>

\* setsockopt(2) returns 0 or -1; on a descriptor that is no socket, -1
SetsockoptResults(fd) == IF fd < 0 THEN {-1} ELSE {0, -1}

\* lines 25-29
SetReuseAddr ==
    /\ pc = "setsockopt_reuse"
    /\ \E r \in SetsockoptResults(server_fd) :
        /\ calls' = Append(calls, [call |-> "setsockopt SO_REUSEADDR", ret |-> r])
        /\ IF r # 0
           THEN /\ Die("setsockopt")
                /\ UNCHANGED listener
           ELSE /\ listener' = [listener EXCEPT !.reuseaddr = TRUE]
                /\ pc' = "setsockopt_v6only"
                /\ UNCHANGED <<err, exit_status>>
    /\ UNCHANGED <<argv, port, server_fd, client_fd, address, open_clients,
                   conn, prev, out, naccepts>>

\* lines 32-37
SetV6Only ==
    /\ pc = "setsockopt_v6only"
    /\ \E r \in SetsockoptResults(server_fd) :
        /\ calls' = Append(calls, [call |-> "setsockopt IPV6_V6ONLY", ret |-> r])
        /\ IF r # 0
           THEN /\ Die("setsockopt IPV6_V6ONLY")
                /\ UNCHANGED listener
           ELSE /\ listener' = [listener EXCEPT !.v6only = FALSE]
                /\ pc' = "fill_address"
                /\ UNCHANGED <<err, exit_status>>
    /\ UNCHANGED <<argv, port, server_fd, client_fd, address, open_clients,
                   conn, prev, out, naccepts>>

\* lines 39-41
FillAddress ==
    /\ pc = "fill_address"
    /\ address' = [family |-> "AF_INET6", addr |-> <<"::">>, port |-> htons(port)]
    /\ pc' = "bind"
    /\ UNCHANGED <<argv, port, server_fd, client_fd, listener, open_clients,
                   conn, prev, out, err, calls, naccepts, exit_status>>

\* the port the kernel binds for a sockaddr: the one asked for, or one of
\* its own choice when 0 is asked for
KernelPorts(sa) ==
    IF ntohs(sa.port) = 0 THEN EphemeralPorts ELSE {ntohs(sa.port)}

\* the test of line 43 with its comparison turned round
BindFailedTest_Inverted(r) == r > 0

\* the test of line 43 on bind()'s result
BindFailedTest(r) == r < 0

\* lines 43-47
Bind ==
    /\ pc = "bind"
    /\ \E r \in {0, -1} :
        /\ calls' = Append(calls, [call |-> "bind", ret |-> r])
        /\ IF BindFailedTest(r)
           THEN /\ Die("bind failed")
                /\ UNCHANGED listener
           ELSE /\ \E p \in KernelPorts(address) :
                     listener' = [listener EXCEPT !.state = "bound", !.port = p]
                /\ pc' = "listen"
                /\ UNCHANGED <<err, exit_status>>
    /\ UNCHANGED <<argv, port, server_fd, client_fd, address, open_clients,
                   conn, prev, out, naccepts>>

\* lines 49-53
Listen ==
    /\ pc = "listen"
    /\ \E r \in {0, -1} :
        /\ calls' = Append(calls, [call |-> "listen", ret |-> r])
        /\ IF r < 0
           THEN /\ Die("listen")
                /\ UNCHANGED listener
           ELSE /\ listener' = [listener EXCEPT !.state = "listening",
                                                !.backlog = Backlog]
                /\ pc' = "announce"
                /\ UNCHANGED <<err, exit_status>>
    /\ UNCHANGED <<argv, port, server_fd, client_fd, address, open_clients,
                   conn, prev, out, naccepts>>

\* line 57, and lines 72-73 behind the loop: when the loop condition holds
\* control is at accept again, otherwise the listening socket is closed and
\* main returns 0
LoopTest ==
    IF LoopCond
    THEN /\ pc' = "accept"
         /\ UNCHANGED <<listener, exit_status>>
    ELSE /\ listener' = [listener EXCEPT !.state = "closed"]
         /\ exit_status' = 0
         /\ pc' = "exited"

\* lines 55-57
Announce ==
    /\ pc = "announce"
    /\ out' = Append(out, <<"Server listening on port", port>>)
    /\ LoopTest
    /\ UNCHANGED <<argv, port, server_fd, client_fd, address, open_clients,
                   conn, prev, err, calls, naccepts>>

\* the clients whose connection the listening socket can complete
Connectable == {c \in ValidClients : c.family = "AF_INET" => ~listener.v6only}

\* the record of a connection accept has just returned
Accepted(c, fd) ==
    [id |-> conn.id + 1, fd |-> fd, family |-> c.family, peer |-> c.peer,
     data |-> c.data, rcvbuf |-> c.data, req |-> <<>>, wres |-> 0, cres |-> 0,
     sent |-> <<>>, ops |-> <<>>, state |-> "open", nfail |-> Len(err),
     after |-> NoConn.after]

\* the last served connection and main()'s state when it had been served
Served ==
    [id |-> conn.id, family |-> conn.family, peer |-> conn.peer,
     data |-> conn.data, wres |-> conn.wres, req |-> conn.req,
     sent |-> conn.sent, ops |-> conn.ops, rcvbuf |-> conn.rcvbuf,
     client_fd |-> conn.after.client_fd,
     open_clients |-> conn.after.open_clients,
     address |-> conn.after.address]

\* perror("accept"); exit(EXIT_FAILURE);
AcceptFailed_Fatal ==
    /\ Die("accept")
    /\ UNCHANGED <<address, open_clients, conn, prev, out, listener>>

\* perror("accept"); with the continue missing
AcceptFailed_Fallthrough ==
    /\ err' = Append(err, "accept")
    /\ out' = Append(out, <<"Connection accepted">>)
    /\ pc' = "write"
    /\ UNCHANGED <<address, open_clients, conn, prev, listener, exit_status>>

\* lines 61-62: perror("accept"); continue;
AcceptFailed ==
    /\ err' = Append(err, "accept")
    /\ LoopTest
    /\ UNCHANGED <<address, open_clients, conn, prev, out>>

\* lines 59-65 and the loop test of line 57 after continue
Accept ==
    /\ pc = "accept"
    /\ naccepts < MaxAccepts
    /\ listener.state = "listening"
    /\ naccepts' = naccepts + 1
    /\ \/ \* accept fails
          /\ client_fd' = -1
          /\ AcceptFailed
       \/ \* accept returns a connection
          \E c \in Connectable :
            LET fd == LowestFree(HeldFds) IN
            /\ client_fd' = fd
            /\ open_clients' = open_clients \cup {fd}
            /\ address' = [family |-> "AF_INET6", addr |-> MappedAddr(c),
                           port |-> htons(PeerPort(c.peer))]
            /\ prev' = IF conn.id > 0 THEN Served ELSE prev
            /\ conn' = Accepted(c, fd)
            /\ out' = Append(out, <<"Connection accepted">>)
            /\ pc' = "write"
            /\ UNCHANGED <<err, listener, exit_status>>
    /\ UNCHANGED <<argv, port, server_fd, calls>>

\* what write(2) can return on a descriptor
WriteResultsOn(fd) == IF fd \in open_clients THEN WriteResults ELSE {-1}

\* a write that read the request first: the literal for IPv6 peers, an
\* answer of its own for IPv4 peers
WriteBuffer_PerFamily ==
    IF conn.family = "AF_INET" THEN <<104, 101, 108, 108, 111, 52>>
    ELSE Take(Greeting, WriteCount)

\* the bytes handed to write: the first WriteCount bytes of the literal
WriteBuffer == Take(Greeting, WriteCount)

\* if (write(...) < 6) continue;
AfterWritePc_Checked(r) == IF r < WriteCount THEN "accept" ELSE "close"

\* lines 66-68: whatever write returned, control goes on to close
AfterWritePc(r) == "close"

\* lines 66-67
Write ==
    /\ pc = "write"
    /\ \E r \in WriteResultsOn(client_fd) :
        /\ pc' = AfterWritePc(r)
        /\ conn' = IF client_fd = conn.fd /\ conn.state = "open"
                  THEN [conn EXCEPT !.req = conn.req \o WriteBuffer,
                                    !.wres = r,
                                    !.sent = conn.sent \o Take(WriteBuffer, Max(r, 0)),
                                    !.ops = Append(conn.ops, "write")]
                  ELSE conn
    /\ out' = Append(out, <<"Data written">>)
    /\ UNCHANGED <<argv, port, server_fd, client_fd, address, listener,
                   open_clients, prev, err, calls, naccepts, exit_status>>

\* a close that leaves the descriptor open
ReleaseFd_Leak(fds, fd) == fds

\* the descriptors left open by close(fd)
ReleaseFd(fds, fd) == fds \ {fd}

\* what close(2) can return on a descriptor
CloseResultsOn(fd) == IF fd \in open_clients THEN CloseResults ELSE {-1}

\* lines 68-70 and the loop test of line 57
Close ==
    /\ pc = "close"
    /\ open_clients' = ReleaseFd(open_clients, client_fd)
    /\ \E r \in CloseResultsOn(client_fd) :
        conn' = IF client_fd = conn.fd /\ conn.state = "open"
                THEN [conn EXCEPT !.cres = r,
                                  !.ops = Append(conn.ops, "close"),
                                  !.state = "closed",
                                  !.after = [client_fd |-> client_fd,
                                             open_clients |-> open_clients',
                                             address |-> address.addr]]
                ELSE conn
    /\ out' = Append(out, <<"Connection closed">>)
    /\ LoopTest
    /\ UNCHANGED <<argv, port, server_fd, client_fd, address, prev, err,
                   calls, naccepts>>

Next ==
    \/ ParseArgs
    \/ Socket
    \/ SetReuseAddr
    \/ SetV6Only
    \/ FillAddress
    \/ Bind
    \/ Listen
    \/ Announce
    \/ Accept
    \/ Write
    \/ Close

Spec == Init /\ [][Next]_vars

\* Every system call the program is in returns: write and close do not
\* block for ever.  accept may: a client need never come.
FairSpec == Spec /\ WF_vars(Write) /\ WF_vars(Close)

-----------------------------------------------------------------------------
(* Vocabulary of the properties *)

\* the six bytes 0x68 0x65 0x6c 0x6c 0x6f 0x0a
HelloBytes == <<104, 101, 108, 108, 111, 10>>

BootstrapPcs == {"args", "socket", "setsockopt_reuse", "setsockopt_v6only",
                 "fill_address", "bind", "listen", "announce"}

ServingPcs == {"accept", "write", "close"}

\* the label perror is to print when a bootstrap call fails
LabelOf(call) ==
    CASE call = "socket" -> "socket failed"
      [] call = "setsockopt SO_REUSEADDR" -> "setsockopt"
      [] call = "setsockopt IPV6_V6ONLY" -> "setsockopt IPV6_V6ONLY"
      [] call = "bind" -> "bind failed"
      [] call = "listen" -> "listen"

\* a bootstrap call failed: each of them returns -1 then
CallFailed(c) == c.ret < 0

BootstrapOrder == <<"socket", "setsockopt SO_REUSEADDR",
                    "setsockopt IPV6_V6ONLY", "bind", "listen">>

\* how often "Server listening on port" is on stdout
Announcements ==
    Cardinality({i \in DOMAIN out : out[i][1] = "Server listening on port"})

\* the last n messages on stdout
LastOut(n) == SubSeq(out, Len(out) - n + 1, Len(out))

\* how often an operation was performed on the current connection
OpCount(op) == Cardinality({i \in DOMAIN conn.ops : conn.ops[i] = op})

\* argv[1] is a decimal integer: digits only
IsDecimal(s) == Len(s) > 0 /\ \A i \in DOMAIN s : s[i] \in DigitChars

\* the port the command line asks for
RequestedPort ==
    IF argv = <<>> THEN 1848 ELSE ParseDigits(argv[1], 1, 0)

-----------------------------------------------------------------------------
(* C1 *)

\* C1, as stated: every connection accept has returned and the server has
\* closed was sent exactly the six bytes "hello\n", by a write that came
\* before the close, and nothing was read from it.
C1_ExactGreetingAlways ==
    conn.state = "closed" =>
        /\ conn.sent = HelloBytes
        /\ conn.ops = <<"write", "close">>
        /\ conn.rcvbuf = conn.data

\* C1, amended: for every connection accept has returned the server calls
\* write once, with exactly the six bytes "hello\n", and then closes the
\* connection; nothing is read from it, and the close comes after the
\* write.  The bytes sent are the first n bytes of "hello\n", n being what
\* the write transferred: all six when the write returns 6, fewer (none
\* when it fails) otherwise; no other byte is ever sent.
C1_GreetingAsWritten ==
    conn.id > 0 =>
        /\ conn.rcvbuf = conn.data
        /\ conn.state = "open" => conn.ops \in {<<>>, <<"write">>}
        /\ conn.state = "closed" =>
              conn.ops = <<"write", "close">> /\ conn.req = HelloBytes
        /\ conn.ops = <<>> => conn.sent = <<>>
        /\ conn.ops # <<>> =>
              /\ conn.req = HelloBytes
              /\ conn.sent = SubSeq(HelloBytes, 1, Max(conn.wres, 0))
              /\ conn.wres = 6 => conn.sent = HelloBytes

C1_Witness ==
    /\ conn.state = "closed"
    /\ conn.wres = 6
    /\ conn.sent = HelloBytes
    /\ conn.data # <<>>

-----------------------------------------------------------------------------
(* C2 *)

\* C2: when a bootstrap call (socket, either setsockopt, bind, listen)
\* fails, it is the last bootstrap call made, that step's error is the one
\* reported, and the process has exited with status 1.
C2_BootstrapFailureIsFatal ==
    \A i \in DOMAIN calls :
        CallFailed(calls[i]) =>
            /\ i = Len(calls)
            /\ err = <<LabelOf(calls[i].call)>>
            /\ exit_status = 1
            /\ pc = "exited"

-----------------------------------------------------------------------------
(* C3 *)

\* C3: a failed accept is reported on stderr and changes nothing else: no
\* write, no close, no exit, the listening socket as it was and control
\* back at accept; and a connection accepted after any number of failed
\* accepts is written the greeting and closed like any other.
C3_FailedAcceptNonFatal ==
    /\ [][(pc = "accept" /\ naccepts' # naccepts /\ client_fd' < 0) =>
            /\ err' = Append(err, "accept")
            /\ out' = out
            /\ conn' = conn
            /\ open_clients' = open_clients
            /\ exit_status' = NoExit
            /\ listener' = listener
            /\ listener'.state = "listening"
            /\ server_fd' = server_fd
            /\ pc' = "accept"]_vars
    /\ [](conn.state = "closed" =>
            /\ conn.ops = <<"write", "close">>
            /\ conn.req = HelloBytes
            /\ conn.sent = SubSeq(HelloBytes, 1, Max(conn.wres, 0))
            /\ conn.fd \notin open_clients)
    /\ [](conn.id > 0 => conn.fd = LowestFree({0, 1, 2, server_fd}))

C3_Witness ==
    /\ conn.state = "closed"
    /\ conn.nfail >= 2
    /\ conn.wres = 6
    /\ pc = "accept"

-----------------------------------------------------------------------------
(* C4 *)

\* C4: the port the listening socket is bound to is 1848 when there is no
\* argument and N when the argument is the decimal integer N, and the port
\* in the "Server listening on port" message is the port bound.
C4_BoundPortIsRequested ==
    (listener.state \in {"bound", "listening"}
        /\ (argv = <<>> \/ IsDecimal(argv[1]))) =>
        /\ listener.port = RequestedPort
        /\ \A i \in DOMAIN out :
              out[i][1] = "Server listening on port" => out[i][2] = listener.port

-----------------------------------------------------------------------------
(* C5 *)

\* C5: "Server listening on port N" is printed at most once, only after
\* socket, both setsockopt calls, bind and listen have succeeded, and it
\* is on stdout before the first accept; when bind fails the process has
\* exited with status 1 and the message is not printed.
C5_AnnouncedAfterBootstrap ==
    /\ Announcements <= 1
    /\ Announcements = 1 =>
          /\ Len(calls) = 5
          /\ \A i \in 1..5 : calls[i].call = BootstrapOrder[i]
          /\ calls[1].ret >= 0
          /\ \A i \in 2..5 : calls[i].ret = 0
          /\ listener.state = "listening"
          /\ out[1] = <<"Server listening on port", port>>
    /\ (pc \in ServingPcs \/ naccepts > 0) => Announcements = 1
    /\ \A i \in DOMAIN calls :
          (calls[i].call = "bind" /\ calls[i].ret < 0) =>
              exit_status = 1 /\ Announcements = 0 /\ pc = "exited"

C5_Witness ==
    /\ pc = "accept"
    /\ naccepts = 0
    /\ Announcements = 1

-----------------------------------------------------------------------------
(* C6 *)

\* C6: once bootstrap has succeeded the process is in the serve loop and
\* stays there; every iteration, whether accept failed or a connection
\* was served, ends with control at accept on the same listening socket; every connection accept returns is in time written
\* to and closed (write and close returning); and every connection, the
\* first or a later one, is served on the same descriptor with no other
\* connection open.
C6_ServesForever ==
    /\ [](Announcements = 1 => pc \in ServingPcs /\ exit_status = NoExit)
    /\ [][pc = "close" =>
            pc' = "accept" /\ listener' = listener /\ server_fd' = server_fd]_vars
    /\ [][(pc = "accept" /\ naccepts' # naccepts) =>
            /\ pc' \in {"accept", "write"}
            /\ listener' = listener
            /\ server_fd' = server_fd]_vars
    /\ [](pc = "accept" =>
            /\ listener.state = "listening"
            /\ conn.state # "open"
            /\ open_clients = {})
    /\ [](conn.id > 0 =>
            conn.fd = LowestFree({0, 1, 2, server_fd}) /\ open_clients \subseteq {conn.fd})
    /\ (conn.state = "open") ~>
          (conn.state = "closed" /\ conn.ops = <<"write", "close">> /\ pc = "accept")

C6_Witness ==
    /\ pc = "accept"
    /\ conn.id >= 2
    /\ conn.state = "closed"
    /\ prev.id >= 1
    /\ Len(err) >= 1

-----------------------------------------------------------------------------
(* C7 *)

\* C7: the only exit status the program produces is 1, and only from
\* bootstrap; from the first accept on the process stays in the serve
\* loop with the listening socket open, listening and bound to the port it
\* was bound to.
C7_ServingNeverEnds ==
    /\ [](exit_status \in {NoExit, 1})
    /\ [](pc \in ServingPcs =>
            listener.state = "listening" /\ exit_status = NoExit /\ server_fd >= 0)
    /\ [][(pc \in ServingPcs) =>
            /\ pc' \in ServingPcs
            /\ listener' = listener
            /\ server_fd' = server_fd
            /\ exit_status' = NoExit]_vars
    /\ [][exit_status' # exit_status =>
            pc \in BootstrapPcs /\ exit_status' = 1]_vars

C7_Witness ==
    /\ pc = "accept"
    /\ naccepts >= 3
    /\ conn.id >= 1
    /\ Len(err) >= 1
    /\ listener.state = "listening"

-----------------------------------------------------------------------------
(* C8 *)

\* C8: at most one accepted descriptor is open at any time and none when
\* accept is called; an accepted descriptor is closed once, in the
\* iteration that accepted it, and a closed connection is not written to
\* or closed again.
C8_OneAtATime ==
    /\ [](Cardinality(open_clients) <= 1)
    /\ [](pc = "accept" => open_clients = {} /\ conn.state # "open")
    /\ [](open_clients # {} => open_clients = {conn.fd} /\ conn.state = "open")
    /\ [](conn.state = "open" => conn.fd \in open_clients /\ OpCount("close") = 0)
    /\ [](conn.state = "closed" =>
            /\ OpCount("close") = 1
            /\ conn.ops[Len(conn.ops)] = "close"
            /\ conn.fd \notin open_clients)
    /\ [][(conn.state = "closed" /\ conn'.id = conn.id) => conn' = conn]_vars

C8_Witness ==
    /\ pc = "accept"
    /\ conn.id >= 2
    /\ conn.state = "closed"
    /\ open_clients = {}

-----------------------------------------------------------------------------
(* C9 *)

\* C9: whatever write and close return, failure and short write included,
\* the connection is written to once and closed once, "Connection
\* accepted", "Data written" and "Connection closed" are printed in that
\* order, the process does not exit and control is back at accept.
C9_ResultsIgnored ==
    /\ [][pc = "write" =>
            /\ pc' = "close"
            /\ out' = Append(out, <<"Data written">>)
            /\ conn'.ops = <<"write">>
            /\ open_clients' = open_clients]_vars
    /\ [][pc = "close" =>
            /\ pc' = "accept"
            /\ out' = Append(out, <<"Connection closed">>)
            /\ conn'.ops = <<"write", "close">>
            /\ open_clients' = {}]_vars
    /\ [](conn.state = "closed" =>
            /\ conn.req = HelloBytes
            /\ LastOut(3) = << <<"Connection accepted">>, <<"Data written">>,
                               <<"Connection closed">> >>
            /\ exit_status = NoExit
            /\ pc = "accept")

C9_Witness ==
    /\ conn.state = "closed"
    /\ conn.wres < 6
    /\ conn.cres = -1
    /\ pc = "accept"

-----------------------------------------------------------------------------
(* C10 *)

\* main()'s state once a connection is served, the peer address that
\* accept stored left aside
SameOutcome ==
    /\ conn.req = prev.req
    /\ conn.sent = prev.sent
    /\ conn.ops = prev.ops
    /\ conn.rcvbuf = conn.data
    /\ prev.rcvbuf = prev.data
    /\ conn.after.client_fd = prev.client_fd
    /\ conn.after.open_clients = prev.open_clients

\* two served connections for which write returned the same
ServedPair ==
    /\ pc = "accept"
    /\ conn.state = "closed"
    /\ prev.id > 0
    /\ conn.wres = prev.wres

\* C10, as stated: two served connections that differ only in the client
\* (address family, address, data sent) were sent the same bytes by the
\* same operations and leave the server in the same state.
C10_ClientIndependent ==
    ServedPair => SameOutcome /\ conn.after.address = prev.address

\* C10, amended: two served connections that differ only in the client
\* were sent the same bytes by the same operations and leave the server in
\* the same state, except for the address buffer, in which accept has
\* stored the peer's address and which the server does not read.
C10_ClientIndependentButAddress ==
    ServedPair => SameOutcome

C10_Witness ==
    /\ ServedPair
    /\ conn.wres = 6
    /\ conn.family # prev.family
    /\ conn.data # prev.data
    /\ conn.after.address # prev.address

=============================================================================
